---- MODULE Spec2Model ----
(***************************************************************************)
(* A model of the segregated-fit heap allocator of allocator.c.           *)
(*                                                                         *)
(* Representation.  The program computes with size_t (64 bit), pointers    *)
(* (64 bit), unsigned int (32 bit) and unsigned short (16 bit).  TLC's     *)
(* integers end at 2^31 - 1, while the program reaches 2^32 + 4096 (a      *)
(* reallocation of INT_MAX bytes), so every size_t, pointer and unsigned   *)
(* int is held as a two-limb number [hi, lo] of value hi * 2^30 + lo, in   *)
(* bytes.  unsigned short values are plain integers.                       *)
(*                                                                         *)
(* Memory is a sparse map from byte addresses to 8-byte cells.  A cell is  *)
(* a block header (headerT is 8 bytes), a pointer (the intrusive next      *)
(* link in the first 8 payload bytes of a free block) or 8 bytes of       *)
(* caller data.  An address outside the map was never written.             *)
(***************************************************************************)
EXTENDS Integers, Sequences, FiniteSets, TLC

(***************************************************************************)
(* Bounds of the exploration.                                              *)
(***************************************************************************)
\* The number of calls of the allocator's interface in one run.
MaxOps == 4
\* The number of blocks the caller holds at one time.
MaxLive == 2

(***************************************************************************)
(* Two-limb unsigned arithmetic.                                           *)
(***************************************************************************)
LIMB == 2^30

\* The two-limb number of a TLC integer n >= 0.
Sz(n) == [hi |-> n \div LIMB, lo |-> n % LIMB]

Norm(h, l) == [hi |-> h + (l \div LIMB), lo |-> l % LIMB]

Plus(a, b) == Norm(a.hi + b.hi, a.lo + b.lo)

\* a - b; the program never subtracts a larger size_t from a smaller one
\* (a negative hi limb would show it).
Minus(a, b) == Norm(a.hi - b.hi, a.lo - b.lo)

Leq(a, b) == a.hi < b.hi \/ (a.hi = b.hi /\ a.lo <= b.lo)

Lt(a, b) == a.hi < b.hi \/ (a.hi = b.hi /\ a.lo < b.lo)

\* a / mult and a * mult for mult a power of two below 2^30.
DivPow2(a, mult) ==
    [hi |-> a.hi \div mult,
     lo |-> (a.hi % mult) * (LIMB \div mult) + (a.lo \div mult)]

MulPow2(a, mult) ==
    [hi |-> a.hi * mult + (a.lo \div (LIMB \div mult)),
     lo |-> (a.lo % (LIMB \div mult)) * mult]

\* a & (mult - 1) for mult a power of two below 2^30.
ModPow2(a, mult) == a.lo % mult

\* Conversion to unsigned int (32 bit) and to unsigned short (16 bit).
U32(a) == [hi |-> a.hi % 4, lo |-> a.lo]

U16(n) == n % 65536

ZERO == Sz(0)

ONE == Sz(1)

(***************************************************************************)
(* Constants of the program.                                               *)
(***************************************************************************)
ALIGNMENT == 8
MIN_BLK_SZ == 16
EXP == 4
REALLOC_INDEX == 27
SZ_CLASSES == 28
HIT_SENSOR == 150000
\* sizeof(headerT): unsigned int + 2 * unsigned short.
HEADER_SIZE == 8
\* INT_MAX of limits.h, 2^31 - 1.
INT_MAX == [hi |-> 1, lo |-> LIMB - 1]
\* The segment collaborator's page size and the address of its first page.
PAGE_SIZE == 4096
HEAP_START == Sz(4096)
NULL == ZERO

Classes == 0 .. (SZ_CLASSES - 1)

(***************************************************************************)
(* Memory cells.                                                           *)
(***************************************************************************)
\* A field of a header that was never written.
UNINIT == 0 - 1

UNINIT_SZ == [hi |-> UNINIT, lo |-> 0]

HdrCell(payloadsz, alloc, index) ==
    [k |-> "hdr", payloadsz |-> payloadsz, alloc |-> alloc, index |-> index]

PtrCell(p) == [k |-> "ptr", p |-> p]

DatCell(v) == [k |-> "dat", v |-> v]

\* The 8 bytes at h read as a headerT: the header stored there, or fields
\* that were never written as such.
HdrAt(m, h) ==
    IF h \in DOMAIN m /\ m[h].k = "hdr"
    THEN m[h]
    ELSE HdrCell(UNINIT_SZ, UNINIT, UNINIT)

\* Writing the 8 bytes at a.
Store(m, a, cell) == (a :> cell) @@ m

\* *(void **)a: the pointer stored at a.
LoadPtr(m, a) == m[a].p

\* A roundup that rounds nothing: the size is passed on as it is.
roundup_none(sz, mult) == sz

roundup(sz, mult) ==
    LET t == Plus(sz, Sz(mult - 1))
    IN  [hi |-> t.hi, lo |-> t.lo - (t.lo % mult)]

hdr_for_payload(payload) == Minus(payload, Sz(HEADER_SIZE))

payload_for_hdr(header) == Plus(header, Sz(HEADER_SIZE))

get_size(m, header) == HdrAt(m, header).payloadsz

set_size(m, header, size) ==
    Store(m, header, [HdrAt(m, header) EXCEPT !.payloadsz = U32(size)])

set_free_lists_index(m, header, index) ==
    Store(m, header, [HdrAt(m, header) EXCEPT !.index = U16(index)])

get_free_lists_index(m, header) == HdrAt(m, header).index

set_to_free(m, header) ==
    Store(m, header, [HdrAt(m, header) EXCEPT !.alloc = 0])

\* set_to_alloc gone wrong: the flag is left as it was.
set_to_alloc_forgotten(m, header) ==
    Store(m, header, HdrAt(m, header))

set_to_alloc(m, header) ==
    Store(m, header, [HdrAt(m, header) EXCEPT !.alloc = 1])

next_block_ptr(header, size) == Plus(Plus(header, Sz(HEADER_SIZE)), size)

\* The loop of free_list_indx: the number of right shifts that empty size.
RECURSIVE shift_count(_)
shift_count(size) ==
    IF size = ZERO THEN 0 ELSE 1 + shift_count(DivPow2(size, 2))

\* free_list_indx gone wrong: the index is one too high.
free_list_indx_high(size) == U16(shift_count(size) - EXP)

free_list_indx(size) == U16(shift_count(size) - EXP - 1)

\* memcpy(dst, src, n) over the sparse memory; n is a multiple of 8 and the
\* two ranges do not overlap.
InRange(a, start, n) == Leq(start, a) /\ Lt(a, Plus(start, n))

memcpy(m, dst, src, n) ==
    LET moved == {Plus(dst, Minus(a, src)) : a \in {x \in DOMAIN m : InRange(x, src, n)}}
        kept  == {x \in DOMAIN m : ~InRange(x, dst, n)}
    IN  [x \in moved |-> m[Plus(src, Minus(x, dst))]] @@ [x \in kept |-> m[x]]

(***************************************************************************)
(* The allocator.  Its globals and the segment are one record              *)
(*   st = [mem, free_lists, hit_counter, pages]                            *)
(* and every function of allocator.c is an operator from a record to the   *)
(* record it leaves, with the value it returns.                            *)
(***************************************************************************)
Hot(st, index) == Leq(Sz(HIT_SENSOR), st.hit_counter[index])

\* The segment collaborator (segment.h): init_heap_segment(0) leaves an
\* empty segment at HEAP_START; extend_heap_segment(n) adds n pages at the
\* end of the segment and returns their address, or returns NULL and
\* changes nothing.  ok is the collaborator's answer.
SegmentEnd(st) == Plus(HEAP_START, MulPow2(st.pages, PAGE_SIZE))

extend_heap_segment(st, extendsz, ok) ==
    IF ok
    THEN [st |-> [st EXCEPT !.pages = Plus(@, extendsz)], bp |-> SegmentEnd(st)]
    ELSE [st |-> st, bp |-> NULL]

\* split_blk gone wrong: the remainder's payload size is the whole
\* difference, header included, so the remainder runs 8 bytes too far.
split_blk_long(st, original_blk, free_lists_index, requested_sz, size_diff) ==
    LET new_block_ptr == next_block_ptr(original_blk, requested_sz)
        m1 == set_size(st.mem, new_block_ptr, size_diff)
        m2 == set_to_free(m1, new_block_ptr)
        m3 == set_free_lists_index(m2, new_block_ptr, free_lists_index)
        m4 == Store(m3, payload_for_hdr(new_block_ptr),
                    PtrCell(st.free_lists[free_lists_index]))
        m5 == set_size(m4, original_blk, requested_sz)
        m6 == set_to_alloc(m5, original_blk)
    IN  [st EXCEPT !.mem = m6,
                   !.free_lists[free_lists_index] = new_block_ptr]

split_blk(st, original_blk, free_lists_index, requested_sz, size_diff) ==
    LET new_block_ptr == next_block_ptr(original_blk, requested_sz)
        m1 == set_size(st.mem, new_block_ptr, Minus(size_diff, Sz(HEADER_SIZE)))
        m2 == set_to_free(m1, new_block_ptr)
        m3 == set_free_lists_index(m2, new_block_ptr, free_lists_index)
        m4 == Store(m3, payload_for_hdr(new_block_ptr),
                    PtrCell(st.free_lists[free_lists_index]))
        m5 == set_size(m4, original_blk, requested_sz)
        m6 == set_to_alloc(m5, original_blk)
    IN  [st EXCEPT !.mem = m6,
                   !.free_lists[free_lists_index] = new_block_ptr]

myinit ==
    [mem         |-> <<>>,
     free_lists  |-> [i \in Classes |-> NULL],
     hit_counter |-> [i \in Classes |->
                        IF i = REALLOC_INDEX THEN Sz(HIT_SENSOR) ELSE ZERO],
     pages       |-> ZERO]

\* Unlink gone wrong: the head of the list takes hdr_ptr's next pointer
\* also when hdr_ptr is not the first node.
Unlink_headonly(st, hdr_ptr, prev_hdr_ptr, free_lists_index) ==
    [st EXCEPT !.free_lists[free_lists_index] =
                   LoadPtr(st.mem, payload_for_hdr(hdr_ptr))]

\* Unlinking hdr_ptr: the head of the list, or the link of the previous node,
\* takes hdr_ptr's next pointer.
Unlink(st, hdr_ptr, prev_hdr_ptr, free_lists_index) ==
    IF prev_hdr_ptr = NULL
    THEN [st EXCEPT !.free_lists[free_lists_index] =
                        LoadPtr(st.mem, payload_for_hdr(hdr_ptr))]
    ELSE [st EXCEPT !.mem = Store(@, payload_for_hdr(prev_hdr_ptr),
                                  PtrCell(LoadPtr(st.mem, payload_for_hdr(hdr_ptr))))]

\* TakeBlock gone wrong: the remainder always goes to the list of its own
\* size, also when the list searched is hot.
TakeBlock_redistribute(st, hdr_ptr, prev_hdr_ptr, size, free_lists_index, split) ==
    LET size_diff == Minus(get_size(st.mem, hdr_ptr), size)
    IN  IF split /\ Leq(Sz(MIN_BLK_SZ), size_diff)
        THEN LET un == Unlink(st, hdr_ptr, prev_hdr_ptr, free_lists_index)
             IN  split_blk(un, hdr_ptr, free_list_indx(size_diff), size, size_diff)
        ELSE LET m1 == set_to_alloc(st.mem, hdr_ptr)
                 m2 == set_size(m1, hdr_ptr, get_size(m1, hdr_ptr))
             IN  Unlink([st EXCEPT !.mem = m2], hdr_ptr, prev_hdr_ptr, free_lists_index)

\* The body of find_fit's loop at a fitting block.
TakeBlock(st, hdr_ptr, prev_hdr_ptr, size, free_lists_index, split) ==
    LET size_diff == Minus(get_size(st.mem, hdr_ptr), size)
    IN  IF split /\ Leq(Sz(MIN_BLK_SZ), size_diff)
        THEN LET un == Unlink(st, hdr_ptr, prev_hdr_ptr, free_lists_index)
             IN  IF Hot(un, free_lists_index)
                 THEN split_blk(un, hdr_ptr, free_lists_index, size, size_diff)
                 ELSE split_blk(un, hdr_ptr, free_list_indx(size_diff), size, size_diff)
        ELSE LET m1 == set_to_alloc(st.mem, hdr_ptr)
                 m2 == set_size(m1, hdr_ptr, get_size(m1, hdr_ptr))
             IN  Unlink([st EXCEPT !.mem = m2], hdr_ptr, prev_hdr_ptr, free_lists_index)

\* The first-fit walk of find_fit from hdr_ptr on.  A walk longer than the
\* number of cells written follows a cycle and never returns: bp is HANG.
HANG == [hi |-> UNINIT, lo |-> 1]

RECURSIVE find_fit_from(_, _, _, _, _, _, _)
find_fit_from(st, hdr_ptr, prev_hdr_ptr, size, free_lists_index, split, fuel) ==
    IF hdr_ptr = NULL THEN [st |-> st, bp |-> NULL]
    ELSE IF fuel = 0 THEN [st |-> st, bp |-> HANG]
    ELSE IF Leq(size, get_size(st.mem, hdr_ptr))
         THEN [st |-> TakeBlock(st, hdr_ptr, prev_hdr_ptr, size, free_lists_index, split),
               bp |-> hdr_ptr]
         ELSE find_fit_from(st, LoadPtr(st.mem, payload_for_hdr(hdr_ptr)), hdr_ptr,
                            size, free_lists_index, split, fuel - 1)

find_fit(st, size, free_lists_index, split) ==
    find_fit_from(st, st.free_lists[free_lists_index], NULL, size,
                  free_lists_index, split, Cardinality(DOMAIN st.mem) + 1)

\* The result r of a search, with list i added to the lists searched.
also_probed(r, i) == [r EXCEPT !.probed = @ \cup {i}]

\* malloc_search gone wrong: the loop goes on to the next list although the
\* class of the request is hot.
RECURSIVE malloc_search_nobreak(_, _, _, _)
malloc_search_nobreak(st, adjustedsz, index, i) ==
    IF i >= REALLOC_INDEX THEN [st |-> st, bp |-> NULL, probed |-> {}]
    ELSE LET r == find_fit(st, Minus(adjustedsz, Sz(HEADER_SIZE)), i, TRUE)
         IN  IF r.bp = HANG THEN [st |-> r.st, bp |-> HANG, probed |-> {i}]
             ELSE IF r.bp # NULL
             THEN [st |-> [r.st EXCEPT !.mem = set_free_lists_index(@, r.bp, i)],
                   bp |-> r.bp, probed |-> {i}]
             ELSE also_probed(malloc_search_nobreak(st, adjustedsz, index, i + 1), i)

\* The search loop of mymalloc over the lists i .. REALLOC_INDEX - 1.
\* probed is the set of the lists find_fit was called on.
RECURSIVE malloc_search(_, _, _, _)
malloc_search(st, adjustedsz, index, i) ==
    IF i >= REALLOC_INDEX THEN [st |-> st, bp |-> NULL, probed |-> {}]
    ELSE LET r == find_fit(st, Minus(adjustedsz, Sz(HEADER_SIZE)), i, TRUE)
         IN  IF r.bp = HANG THEN [st |-> r.st, bp |-> HANG, probed |-> {i}]
             ELSE IF r.bp # NULL
             THEN [st |-> [r.st EXCEPT !.mem = set_free_lists_index(@, r.bp, i)],
                   bp |-> r.bp, probed |-> {i}]
             ELSE IF Hot(st, index) THEN [st |-> st, bp |-> NULL, probed |-> {i}]
             ELSE also_probed(malloc_search(st, adjustedsz, index, i + 1), i)

\* What mymalloc does with the pages it got (lines 313-337).
malloc_place(st, bp, index, adjustedsz, extended_sz) ==
    LET s1 == [st EXCEPT !.mem = set_free_lists_index(@, bp, index)]
        size_diff == Minus(extended_sz, adjustedsz)
    IN  IF Leq(Sz(MIN_BLK_SZ), size_diff)
        THEN IF Hot(s1, index)
             THEN split_blk(s1, bp, index, Minus(adjustedsz, Sz(HEADER_SIZE)), size_diff)
             ELSE split_blk(s1, bp, free_list_indx(size_diff),
                            Minus(adjustedsz, Sz(HEADER_SIZE)), size_diff)
        ELSE [s1 EXCEPT !.mem =
                 set_to_alloc(set_size(@, bp, Minus(extended_sz, Sz(HEADER_SIZE))), bp)]

\* What mymalloc does once its search loop has ended with found (lines
\* 308-337): s1 is the store after the count of the request.
malloc_finish(s1, found, index, adjustedsz, ok) ==
    LET extendsz == DivPow2(roundup(adjustedsz, PAGE_SIZE), PAGE_SIZE)
        extended_sz == MulPow2(extendsz, PAGE_SIZE)
        ext == extend_heap_segment(s1, extendsz, ok)
    IN  IF found.bp = HANG
        THEN [st |-> s1, ret |-> HANG, path |-> "hang", probed |-> found.probed]
        ELSE IF found.bp # NULL
        THEN [st |-> found.st, ret |-> payload_for_hdr(found.bp), path |-> "fit",
              probed |-> found.probed]
        ELSE IF ext.bp = NULL
        THEN [st |-> s1, ret |-> NULL, path |-> "oom", probed |-> found.probed]
        ELSE [st |-> malloc_place(ext.st, ext.bp, index, adjustedsz, extended_sz),
              ret |-> payload_for_hdr(ext.bp), path |-> "extend",
              probed |-> found.probed]

\* mymalloc(requestedsz); ok is the answer of extend_heap_segment, if asked.
\* path tells the way taken: "invalid", "fit", "extend" or "oom" ("hang" when
\* the walk of a list never ends); probed, the lists that were searched.
mymalloc(st, requestedsz, ok) ==
    IF requestedsz = ZERO \/ Lt(INT_MAX, requestedsz)
    THEN [st |-> st, ret |-> NULL, path |-> "invalid", probed |-> {}]
    ELSE
    LET adjustedsz == roundup(Plus(requestedsz, Sz(HEADER_SIZE)), ALIGNMENT)
        index == free_list_indx(adjustedsz)
        s1 == [st EXCEPT !.hit_counter[index] = U32(Plus(@, ONE))]
    IN  malloc_finish(s1, malloc_search(s1, adjustedsz, index, 0), index, adjustedsz, ok)

\* myfree gone wrong: the block is pushed on the list of the class of its
\* footprint, while its header keeps the index it was given.
myfree_bysize(st, ptr) ==
    IF ptr = NULL THEN st
    ELSE
    LET hdr_ptr == hdr_for_payload(ptr)
        index == free_list_indx(Plus(get_size(st.mem, hdr_ptr), Sz(HEADER_SIZE)))
        m1 == Store(st.mem, ptr, PtrCell(st.free_lists[index]))
        m2 == set_to_free(m1, hdr_ptr)
    IN  [st EXCEPT !.hit_counter[index] = U32(Minus(@, ONE)),
                   !.mem = m2,
                   !.free_lists[index] = hdr_ptr]

myfree(st, ptr) ==
    IF ptr = NULL THEN st
    ELSE
    LET hdr_ptr == hdr_for_payload(ptr)
        index == get_free_lists_index(st.mem, hdr_ptr)
        m1 == Store(st.mem, ptr, PtrCell(st.free_lists[index]))
        m2 == set_to_free(m1, hdr_ptr)
    IN  [st EXCEPT !.hit_counter[index] = U32(Minus(@, ONE)),
                   !.mem = m2,
                   !.free_lists[index] = hdr_ptr]

\* realloc_place gone wrong: the old block is freed before it is copied, so
\* the free-list link written into its first word is what gets copied.
realloc_place_freefirst(st, bp, oldptr, oldsz, adjustedsz, extended_sz) ==
    LET s1 == [st EXCEPT !.mem = set_free_lists_index(@, bp, REALLOC_INDEX)]
        size_diff == Minus(extended_sz, adjustedsz)
        newptr == payload_for_hdr(bp)
    IN  IF Leq(Sz(MIN_BLK_SZ), size_diff)
        THEN LET s2 == split_blk(s1, bp, REALLOC_INDEX,
                                 Minus(adjustedsz, Sz(HEADER_SIZE)), size_diff)
                 s3 == myfree(s2, oldptr)
             IN  [s3 EXCEPT !.mem = memcpy(@, newptr, oldptr, oldsz)]
        ELSE LET s2 == myfree(s1, oldptr)
                 s3 == [s2 EXCEPT !.mem = memcpy(@, newptr, oldptr, oldsz)]
             IN  [s3 EXCEPT !.mem =
                     set_to_alloc(set_size(@, bp, Minus(extended_sz, Sz(HEADER_SIZE))), bp)]

\* What myrealloc does with the pages it got (lines 392-409).
realloc_place(st, bp, oldptr, oldsz, adjustedsz, extended_sz) ==
    LET s1 == [st EXCEPT !.mem = set_free_lists_index(@, bp, REALLOC_INDEX)]
        size_diff == Minus(extended_sz, adjustedsz)
        newptr == payload_for_hdr(bp)
    IN  IF Leq(Sz(MIN_BLK_SZ), size_diff)
        THEN LET s2 == split_blk(s1, bp, REALLOC_INDEX,
                                 Minus(adjustedsz, Sz(HEADER_SIZE)), size_diff)
                 s3 == [s2 EXCEPT !.mem = memcpy(@, newptr, oldptr, oldsz)]
             IN  myfree(s3, oldptr)
        ELSE LET s2 == [s1 EXCEPT !.mem = memcpy(@, newptr, oldptr, oldsz)]
                 s3 == myfree(s2, oldptr)
             IN  [s3 EXCEPT !.mem =
                     set_to_alloc(set_size(@, bp, Minus(extended_sz, Sz(HEADER_SIZE))), bp)]

\* realloc_adjustedsz gone wrong: the rounded footprint is not doubled.
realloc_adjustedsz_single(newsz) ==
    roundup(Plus(newsz, Sz(HEADER_SIZE)), ALIGNMENT)

\* The size myrealloc looks for (line 377): twice the rounded footprint.
realloc_adjustedsz(newsz) ==
    MulPow2(roundup(Plus(newsz, Sz(HEADER_SIZE)), ALIGNMENT), 2)

\* realloc_grow gone wrong: the old block is freed although the segment
\* could not be extended.
realloc_grow_freeonfail(st, oldptr, oldsz, newsz, ok) ==
    LET adjustedsz == realloc_adjustedsz(newsz)
        found == find_fit(st, Minus(adjustedsz, Sz(HEADER_SIZE)), REALLOC_INDEX, TRUE)
        extendsz == DivPow2(roundup(adjustedsz, PAGE_SIZE), PAGE_SIZE)
        extended_sz == MulPow2(extendsz, PAGE_SIZE)
        ext == extend_heap_segment(st, extendsz, ok)
    IN  IF found.bp = HANG
        THEN [st |-> st, ret |-> HANG, path |-> "hang"]
        ELSE IF found.bp # NULL
        THEN LET newptr == payload_for_hdr(found.bp)
                 s1 == [found.st EXCEPT !.mem =
                           set_free_lists_index(@, found.bp, REALLOC_INDEX)]
                 s2 == [s1 EXCEPT !.mem = memcpy(@, newptr, oldptr, oldsz)]
             IN  [st |-> myfree(s2, oldptr), ret |-> newptr, path |-> "fit"]
        ELSE IF ext.bp = NULL
        THEN [st |-> myfree(st, oldptr), ret |-> NULL, path |-> "oom"]
        ELSE [st |-> realloc_place(ext.st, ext.bp, oldptr, oldsz, adjustedsz, extended_sz),
              ret |-> payload_for_hdr(ext.bp), path |-> "extend"]

\* The growing part of myrealloc (lines 373-409): oldsz < newsz <= INT_MAX.
realloc_grow(st, oldptr, oldsz, newsz, ok) ==
    LET adjustedsz == realloc_adjustedsz(newsz)
        found == find_fit(st, Minus(adjustedsz, Sz(HEADER_SIZE)), REALLOC_INDEX, TRUE)
        extendsz == DivPow2(roundup(adjustedsz, PAGE_SIZE), PAGE_SIZE)
        extended_sz == MulPow2(extendsz, PAGE_SIZE)
        ext == extend_heap_segment(st, extendsz, ok)
    IN  IF found.bp = HANG
        THEN [st |-> st, ret |-> HANG, path |-> "hang"]
        ELSE IF found.bp # NULL
        THEN LET newptr == payload_for_hdr(found.bp)
                 s1 == [found.st EXCEPT !.mem =
                           set_free_lists_index(@, found.bp, REALLOC_INDEX)]
                 s2 == [s1 EXCEPT !.mem = memcpy(@, newptr, oldptr, oldsz)]
             IN  [st |-> myfree(s2, oldptr), ret |-> newptr, path |-> "fit"]
        ELSE IF ext.bp = NULL
        THEN [st |-> st, ret |-> NULL, path |-> "oom"]
        ELSE [st |-> realloc_place(ext.st, ext.bp, oldptr, oldsz, adjustedsz, extended_sz),
              ret |-> payload_for_hdr(ext.bp), path |-> "extend"]

\* myrealloc gone wrong: a request the block already satisfies trims the
\* size recorded in its header to the size asked for.
myrealloc_trim(st, oldptr, newsz, ok) ==
    LET s0 == [st EXCEPT !.hit_counter[REALLOC_INDEX] = U32(Plus(@, ONE))]
    IN  IF oldptr = NULL
        THEN LET r == mymalloc(s0, newsz, ok)
             IN  [st |-> r.st, ret |-> r.ret, path |-> "malloc:" \o r.path]
        ELSE
        LET oldsz == get_size(s0.mem, hdr_for_payload(oldptr))
        IN  IF newsz = ZERO \/ Lt(INT_MAX, newsz)
            THEN [st |-> s0, ret |-> NULL, path |-> "invalid"]
            ELSE IF Leq(newsz, oldsz)
            THEN [st |-> [s0 EXCEPT !.mem = set_size(@, hdr_for_payload(oldptr), newsz)],
                  ret |-> oldptr, path |-> "same"]
            ELSE realloc_grow(s0, oldptr, oldsz, newsz, ok)

\* myrealloc(oldptr, newsz); ok is the answer of extend_heap_segment, if
\* asked.  path: "malloc:" and mymalloc's path for a null oldptr, else
\* "invalid", "same", "fit", "extend" or "oom".
myrealloc(st, oldptr, newsz, ok) ==
    LET s0 == [st EXCEPT !.hit_counter[REALLOC_INDEX] = U32(Plus(@, ONE))]
    IN  IF oldptr = NULL
        THEN LET r == mymalloc(s0, newsz, ok)
             IN  [st |-> r.st, ret |-> r.ret, path |-> "malloc:" \o r.path]
        ELSE
        LET oldsz == get_size(s0.mem, hdr_for_payload(oldptr))
        IN  IF newsz = ZERO \/ Lt(INT_MAX, newsz)
            THEN [st |-> s0, ret |-> NULL, path |-> "invalid"]
            ELSE IF Leq(newsz, oldsz)
            THEN [st |-> s0, ret |-> oldptr, path |-> "same"]
            ELSE realloc_grow(s0, oldptr, oldsz, newsz, ok)

(***************************************************************************)
(* The state machine.  The program's state is the allocator's globals and  *)
(* the segment (mem, free_lists, hit_counter, pages).  The caller's side   *)
(* is live, the blocks it holds with the size it asked for; last, the call *)
(* made last; nops, the number of calls made; and trip, which follows the  *)
(* runs that are a repetition of p = mymalloc(r); myfree(p).               *)
(***************************************************************************)
VARIABLES mem, free_lists, hit_counter, pages, live, last, nops, trip

vars == <<mem, free_lists, hit_counter, pages, live, last, nops, trip>>

\* The allocator's state as the record the operators work on.
State == [mem |-> mem, free_lists |-> free_lists,
          hit_counter |-> hit_counter, pages |-> pages]

SetState(st) ==
    /\ mem' = st.mem
    /\ free_lists' = st.free_lists
    /\ hit_counter' = st.hit_counter
    /\ pages' = st.pages

\* The request sizes the caller draws from: invalid ones (0, INT_MAX + 1),
\* a small one, one that fills a page, and the largest valid one.
MallocSizes == {Sz(0), Sz(100), Sz(4088), INT_MAX, Plus(INT_MAX, ONE)}

\* For myrealloc of a held block: invalid ones, one that doubles to less
\* than a page, one that doubles to a page, and the largest valid one.
ReallocSizes == {Sz(0), Sz(200), Sz(2040), INT_MAX, Plus(INT_MAX, ONE)}

LivePtrs == {b.ptr : b \in live}

\* A block the caller holds: its payload pointer, the size asked for and
\* the call that returned it.
Held(ptr, req, by) == [ptr |-> ptr, req |-> req, by |-> by]

ReqOf(p) == (CHOOSE b \in live : b.ptr = p).req

ByOf(p) == (CHOOSE b \in live : b.ptr = p).by

Call(op, ptr, sz, ret, path) ==
    [op |-> op, ptr |-> ptr, sz |-> sz, ret |-> ret, path |-> path]

NoCall == Call("init", NULL, ZERO, NULL, "init")

\* The offset of the 8-byte word that holds the last of req bytes.
LastWord(req) == LET t == Minus(req, ONE) IN [hi |-> t.hi, lo |-> t.lo - (t.lo % 8)]

\* The caller fills a block it got from mymalloc: the first and the last
\* 8-byte word of the bytes it asked for, with values no other block has.
Fill(m, ptr, req) ==
    IF ptr = NULL THEN m
    ELSE Store(Store(m, ptr, DatCell(<<ptr, ZERO>>)),
               Plus(ptr, LastWord(req)), DatCell(<<ptr, LastWord(req)>>))

\* trip.mode: "fresh" before the first call; "on" while the calls so far are
\* p = mymalloc(r); myfree(p) repeated, every mymalloc having returned a
\* block (p is the block held, NULL between two pairs; grown counts the
\* calls that extended the segment); "off" after any other call.
Trip(mode, r, p, grown) == [mode |-> mode, r |-> r, p |-> p, grown |-> grown]

TripOff == Trip("off", ZERO, NULL, 0)

TripAfterMalloc(requestedsz, r) ==
    LET g == IF r.path = "extend" THEN 1 ELSE 0
    IN  IF r.ret = NULL THEN TripOff
        ELSE IF trip.mode = "fresh" THEN Trip("on", requestedsz, r.ret, g)
        ELSE IF trip.mode = "on" /\ trip.p = NULL /\ trip.r = requestedsz
        THEN Trip("on", requestedsz, r.ret, trip.grown + g)
        ELSE TripOff

TripAfterFree(ptr) ==
    IF trip.mode = "on" /\ trip.p = ptr
    THEN [trip EXCEPT !.p = NULL]
    ELSE TripOff

Init ==
    /\ mem = myinit.mem
    /\ free_lists = myinit.free_lists
    /\ hit_counter = myinit.hit_counter
    /\ pages = myinit.pages
    /\ live = {}
    /\ last = NoCall
    /\ nops = 0
    /\ trip = Trip("fresh", ZERO, NULL, 0)

\* p = mymalloc(requestedsz); the caller fills the block.
Malloc(requestedsz, ok) ==
    /\ nops < MaxOps
    /\ Cardinality(live) < MaxLive
    /\ \E r \in {mymalloc(State, requestedsz, ok)} :
           /\ r.path # "hang"
           /\ SetState([r.st EXCEPT !.mem = Fill(@, r.ret, requestedsz)])
           /\ live' = IF r.ret = NULL THEN live
                      ELSE live \cup {Held(r.ret, requestedsz, "malloc")}
           /\ last' = Call("malloc", NULL, requestedsz, r.ret, r.path)
           /\ trip' = TripAfterMalloc(requestedsz, r)
    /\ nops' = nops + 1

\* myfree(ptr) of a block the caller holds.
Free(ptr) ==
    /\ nops < MaxOps
    /\ ptr \in LivePtrs
    /\ \E st \in {myfree(State, ptr)} : SetState(st)
    /\ live' = {b \in live : b.ptr # ptr}
    /\ last' = Call("free", ptr, ZERO, NULL, "free")
    /\ trip' = TripAfterFree(ptr)
    /\ nops' = nops + 1

\* q = myrealloc(oldptr, newsz) of a block the caller holds.
Realloc(oldptr, newsz, ok) ==
    /\ nops < MaxOps
    /\ oldptr \in LivePtrs
    /\ \E r \in {myrealloc(State, oldptr, newsz, ok)} :
           /\ r.path # "hang"
           /\ SetState(r.st)
           /\ live' = IF r.ret = NULL THEN live
                      ELSE {b \in live : b.ptr # oldptr}
                           \cup {Held(r.ret, newsz, IF r.ret = oldptr THEN ByOf(oldptr)
                                                    ELSE "realloc")}
           /\ last' = Call("realloc", oldptr, newsz, r.ret, r.path)
    /\ trip' = TripOff
    /\ nops' = nops + 1

\* q = myrealloc(NULL, newsz); the caller fills the block.
ReallocNull(newsz, ok) ==
    /\ nops < MaxOps
    /\ Cardinality(live) < MaxLive
    /\ \E r \in {myrealloc(State, NULL, newsz, ok)} :
           /\ r.path # "malloc:hang"
           /\ SetState([r.st EXCEPT !.mem = Fill(@, r.ret, newsz)])
           /\ live' = IF r.ret = NULL THEN live
                      ELSE live \cup {Held(r.ret, newsz, "realloc")}
           /\ last' = Call("realloc", NULL, newsz, r.ret, r.path)
    /\ trip' = TripOff
    /\ nops' = nops + 1

\* myinit() called again on a heap in use: the segment is reset to 0 pages,
\* the lists and the counters are set as at the start, and every block the
\* caller held is gone with the heap.
MyInit ==
    /\ nops < MaxOps
    /\ SetState(myinit)
    /\ live' = {}
    /\ last' = NoCall
    /\ trip' = Trip("fresh", ZERO, NULL, 0)
    /\ nops' = nops + 1

Next ==
    \/ MyInit
    \/ \E requestedsz \in MallocSizes, ok \in BOOLEAN : Malloc(requestedsz, ok)
    \/ \E ptr \in LivePtrs : Free(ptr)
    \/ \E oldptr \in LivePtrs, newsz \in ReallocSizes, ok \in BOOLEAN :
           Realloc(oldptr, newsz, ok)
    \/ \E newsz \in MallocSizes, ok \in BOOLEAN : ReallocNull(newsz, ok)

Spec == Init /\ [][Next]_vars

(***************************************************************************)
(* A heap with a hot class below the reallocation class.  From a fresh     *)
(* heap, a = mymalloc(100) extends the segment and leaves the rest of the  *)
(* page on list 7; b = mymalloc(100) and c = mymalloc(100) are carved from *)
(* it and recorded under index 7; myfree(b) and myfree(c) then take        *)
(* hit_counter[7] from 0 to 2^32 - 2, and myfree(a) leaves nothing held.   *)
(* The next request of class 7 finds its class hot.                        *)
(***************************************************************************)
\* The three blocks a, b, c are given back in the order b, c, a.
warm_free(a, b, c) ==
    [st |-> myfree(myfree(myfree(c.st, b.ret), c.ret), a.ret), freed |-> a.ret]

\* The third request, after the calls that returned a and b.
warm_c(a, b) == warm_free(a, b, mymalloc(b.st, Sz(100), TRUE))

\* The second request, after the call that returned a.
warm_b(a) == warm_c(a, mymalloc(a.st, Sz(100), TRUE))

WarmUp == warm_b(mymalloc(myinit, Sz(100), TRUE))

InitHot ==
    \E w \in {WarmUp} :
        /\ mem = w.st.mem
        /\ free_lists = w.st.free_lists
        /\ hit_counter = w.st.hit_counter
        /\ pages = w.st.pages
        /\ live = {}
        /\ last = Call("free", w.freed, ZERO, NULL, "free")
        /\ nops = 0
        /\ trip = TripOff

\* Requests of classes 2, 6, 7 (the hot one) and 8.
HotMallocSizes == {Sz(100), Sz(1800), Sz(3000), Sz(4088)}

HotReallocSizes == {Sz(200), Sz(2040)}

NextHot ==
    \/ MyInit
    \/ \E requestedsz \in HotMallocSizes, ok \in BOOLEAN : Malloc(requestedsz, ok)
    \/ \E ptr \in LivePtrs : Free(ptr)
    \/ \E oldptr \in LivePtrs, newsz \in HotReallocSizes, ok \in BOOLEAN :
           Realloc(oldptr, newsz, ok)

SpecHot == InitHot /\ [][NextHot]_vars

(***************************************************************************)
(* A heap late in a long run.  myrealloc(NULL, 0) counts the call in       *)
(* hit_counter[REALLOC_INDEX] (line 364) and changes nothing else, so      *)
(* after n such calls the counter is n higher, modulo 2^32.  WrapCalls of  *)
(* them, made on a fresh heap, leave the counter at 2^32 - 1.              *)
(***************************************************************************)
\* 2^32 - HIT_SENSOR - 1.
WrapCalls == [hi |-> 3, lo |-> LIMB - HIT_SENSOR - 1]

\* The state after n calls of myrealloc(NULL, 0) from state st.
after_null_reallocs(st, n) ==
    [st EXCEPT !.hit_counter[REALLOC_INDEX] = U32(Plus(@, n))]

InitLong ==
    /\ mem = myinit.mem
    /\ free_lists = myinit.free_lists
    /\ hit_counter = after_null_reallocs(myinit, WrapCalls).hit_counter
    /\ pages = myinit.pages
    /\ live = {}
    /\ last = Call("realloc", NULL, ZERO, NULL, "malloc:invalid")
    /\ nops = 0
    /\ trip = TripOff

SpecLong == InitLong /\ [][Next]_vars

(***************************************************************************)
(* free_list_indx on its own.  The function is static and has three call   *)
(* sites: mymalloc passes the adjusted size of a valid request (line 297), *)
(* and find_fit and mymalloc pass the size of a remainder that is at least *)
(* MIN_BLK_SZ (lines 251 and 327).  The argument is drawn at the start     *)
(* from what these call sites pass, and the one step applies the function. *)
(***************************************************************************)
\* Valid request sizes: the small ones, those around every power of two up
\* to 2^31, and the largest.
IndxRequests ==
    {Sz(n) : n \in 1 .. 40}
        \cup {Sz(2^e - k) : e \in 5 .. 29, k \in {7, 8, 9, 16}}
        \cup {Minus([hi |-> h, lo |-> 0], Sz(k)) : h \in {1, 2}, k \in {7, 8, 9, 16}}
        \cup {INT_MAX}

\* adjustedsz of mymalloc (line 295), the argument at line 297.
IndxAdjusted == {roundup(Plus(r, Sz(HEADER_SIZE)), ALIGNMENT) : r \in IndxRequests}

\* size_diff of mymalloc after an extension, the argument at line 327
\* when it is at least MIN_BLK_SZ (line 317); the remainders of
\* find_fit (lines 234-235, 251) are sizes of the same kind.
IndxRemainders ==
    {d \in {Minus(roundup(a, PAGE_SIZE), a) : a \in IndxAdjusted} :
        Leq(Sz(MIN_BLK_SZ), d)}

IndxInputs == IndxAdjusted \cup IndxRemainders

InitIndx ==
    /\ mem = myinit.mem
    /\ free_lists = myinit.free_lists
    /\ hit_counter = myinit.hit_counter
    /\ pages = myinit.pages
    /\ live = {}
    /\ last \in {Call("input", NULL, n, NULL, "input") : n \in IndxInputs}
    /\ nops = 0
    /\ trip = TripOff

\* index = free_list_indx(size); the index is kept in last.ret.
FreeListIndx ==
    /\ last.op = "input"
    /\ last' = Call("free_list_indx", NULL, last.sz, Sz(free_list_indx(last.sz)), "done")
    /\ nops' = nops + 1
    /\ UNCHANGED <<mem, free_lists, hit_counter, pages, live, trip>>

NextIndx == FreeListIndx

SpecIndx == InitIndx /\ [][NextIndx]_vars

(***************************************************************************)
(* What the claims speak of.                                               *)
(***************************************************************************)
\* The headers met by walking a free list from header h, following the
\* next pointers of memory m (a walk stops when it meets a header again).
RECURSIVE ListFrom(_, _, _)
ListFrom(m, h, seen) ==
    IF h = NULL \/ h \in seen THEN seen
    ELSE ListFrom(m, LoadPtr(m, payload_for_hdr(h)), seen \cup {h})

ListBlocks(m, fl, i) == ListFrom(m, fl[i], {})

\* The headers of the blocks reachable from any free list.
FreeBlocks == UNION {ListBlocks(mem, free_lists, i) : i \in Classes}

\* The headers of the blocks the caller holds.
AllocBlocks == {hdr_for_payload(p) : p \in LivePtrs}

\* The end of the address range [header, header + 8 + payload_sz).
BlockEnd(m, h) == Plus(payload_for_hdr(h), get_size(m, h))

Disjoint(m, a, b) == Leq(BlockEnd(m, a), b) \/ Leq(BlockEnd(m, b), a)

Aligned(a) == ModPow2(a, ALIGNMENT) = 0

\* The header of the block the last call returned.
LastHdr == HdrAt(mem, hdr_for_payload(last.ret))

(***************************************************************************)
(* C1.  No overlap: in every reachable state the address ranges            *)
(* [header, header + 8 + payload_sz) of the blocks the caller holds are    *)
(* pairwise disjoint, and each is disjoint from the range of every block   *)
(* reachable from a free list.                                             *)
(***************************************************************************)
C1_NoOverlap ==
    /\ \A a \in AllocBlocks : \A b \in AllocBlocks \ {a} : Disjoint(mem, a, b)
    /\ \A a \in AllocBlocks : \A f \in FreeBlocks : Disjoint(mem, a, f)

\* Two blocks are held, one of them split off a block of a free list, and a
\* free list holds a block.
C1_Witness ==
    /\ Cardinality(AllocBlocks) = 2
    /\ FreeBlocks # {}
    /\ last.op = "malloc" /\ last.path = "fit"

(***************************************************************************)
(* C2.  A successful mymalloc(r) returns an 8-byte aligned p whose header  *)
(* at p - 8 has alloc = 1, payloadsz >= r and an index in 0 .. 27.         *)
(***************************************************************************)
C2_MallocResult ==
    (last.op = "malloc" /\ last.ret # NULL) =>
        /\ Aligned(last.ret)
        /\ LastHdr.alloc = 1
        /\ Leq(last.sz, LastHdr.payloadsz)
        /\ LastHdr.index \in Classes

\* mymalloc returned a block it took from a free list.
C2_Witness == last.op = "malloc" /\ last.ret # NULL /\ last.path = "fit"

(***************************************************************************)
(* C3.  Round trip: after N >= 1 repetitions of p = mymalloc(r);           *)
(* myfree(p) from a fresh heap, every hit counter but the reallocation     *)
(* class's is 0, that one is HIT_SENSOR, and the segment was extended at   *)
(* most once.                                                              *)
(***************************************************************************)
C3_RoundTrip ==
    (trip.mode = "on" /\ trip.p = NULL) =>
        /\ \A k \in Classes :
              hit_counter[k] = IF k = REALLOC_INDEX THEN Sz(HIT_SENSOR) ELSE ZERO
        /\ trip.grown <= 1

(***************************************************************************)
(* C4.  Shrink in place: myrealloc(p, s) of a held block with              *)
(* 1 <= s <= payloadsz(p) returns p and leaves the memory (the header and  *)
(* the payload), every free list and the segment size unchanged.           *)
(* As claimed, for every such s; as amended, for those with s <= INT_MAX.  *)
(***************************************************************************)
\* The step is a call of myrealloc on a held block.
ReallocStep == nops' = nops + 1 /\ last'.op = "realloc" /\ last'.ptr # NULL

ShrinkInPlace ==
    /\ last'.ret = last'.ptr
    /\ mem' = mem
    /\ free_lists' = free_lists
    /\ pages' = pages

C4_ShrinkAnySize ==
    [][(/\ ReallocStep
        /\ Leq(ONE, last'.sz)
        /\ Leq(last'.sz, get_size(mem, hdr_for_payload(last'.ptr))))
       => ShrinkInPlace]_vars

C4_Shrink ==
    [][(/\ ReallocStep
        /\ Leq(ONE, last'.sz)
        /\ Leq(last'.sz, INT_MAX)
        /\ Leq(last'.sz, get_size(mem, hdr_for_payload(last'.ptr))))
       => ShrinkInPlace]_vars

\* myrealloc was called with a size the block already has, and returned it.
C4_Witness ==
    /\ last.op = "realloc" /\ last.ptr # NULL /\ last.ret = last.ptr
    /\ Leq(last.sz, LastHdr.payloadsz)

(***************************************************************************)
(* C5.  Growth: when myrealloc(p, r') of a block p got from mymalloc(r),   *)
(* with r' > payloadsz(p), returns q # NULL, then q is another allocated   *)
(* block, the first r bytes at q are those that were at p, and the old     *)
(* block is free and on the free list its index names.                     *)
(***************************************************************************)
C5_Grow ==
    [][(/\ ReallocStep
        /\ last'.ptr \in LivePtrs
        /\ ByOf(last'.ptr) = "malloc"
        /\ last'.ret # NULL
        /\ Lt(get_size(mem, hdr_for_payload(last'.ptr)), last'.sz))
       => LET p == last'.ptr
              q == last'.ret
              oldhdr == HdrAt(mem', hdr_for_payload(p))
          IN  /\ q # p
              /\ q \in {b.ptr : b \in live'}
              /\ HdrAt(mem', hdr_for_payload(q)).alloc = 1
              /\ \A a \in DOMAIN mem :
                    InRange(a, p, ReqOf(p)) =>
                        /\ Plus(q, Minus(a, p)) \in DOMAIN mem'
                        /\ mem'[Plus(q, Minus(a, p))] = mem[a]
              /\ oldhdr.alloc = 0
              /\ oldhdr.index \in Classes
              /\ hdr_for_payload(p) \in ListBlocks(mem', free_lists', oldhdr.index)]_vars

\* myrealloc moved a block that mymalloc had returned at last.ptr and the
\* caller had filled, into a block of the reallocation list.
C5_Witness ==
    /\ last.op = "realloc" /\ last.path = "fit"
    /\ last.ret \in DOMAIN mem
    /\ mem[last.ret] = DatCell(<<last.ptr, ZERO>>)

(***************************************************************************)
(* C6.  Scenario S4: on a fresh heap, p = mymalloc(100) and then           *)
(* q = myrealloc(p, 200) leave the header at q - 8 with index 27 and       *)
(* payloadsz >= 416 as claimed, >= 408 as amended.                         *)
(***************************************************************************)
ScenarioS4 ==
    /\ nops = 1 /\ last.op = "malloc" /\ last.sz = Sz(100) /\ last.ret # NULL
    /\ nops' = 2 /\ last'.op = "realloc" /\ last'.ptr = last.ret
    /\ last'.sz = Sz(200) /\ last'.ret # NULL

C6_S4_416 ==
    [][ScenarioS4 =>
          /\ HdrAt(mem', hdr_for_payload(last'.ret)).index = REALLOC_INDEX
          /\ Leq(Sz(416), HdrAt(mem', hdr_for_payload(last'.ret)).payloadsz)]_vars

C6_S4 ==
    [][ScenarioS4 =>
          /\ HdrAt(mem', hdr_for_payload(last'.ret)).index = REALLOC_INDEX
          /\ Leq(Sz(408), HdrAt(mem', hdr_for_payload(last'.ret)).payloadsz)]_vars

\* The state after scenario S4: the second call was myrealloc(p, 200) of the
\* block of 104 payload bytes that the first call had returned.
C6_Witness ==
    /\ nops = 2 /\ last.op = "realloc" /\ last.sz = Sz(200)
    /\ last.ptr # NULL /\ last.ret # NULL /\ last.ret # last.ptr
    /\ get_size(mem, hdr_for_payload(last.ptr)) = Sz(104)
    /\ hit_counter[REALLOC_INDEX] = Sz(HIT_SENSOR + 1)

(***************************************************************************)
(* C7.  When myrealloc(p, newsz) grows (payloadsz(p) < newsz <= INT_MAX)   *)
(* and returns q # NULL, the payloadsz stored in q's header is >= newsz    *)
(* and is the size asked of find_fit or more: the doubled size             *)
(* roundup(newsz + 8, 8) * 2 - 8 is stored without loss of high bits.      *)
(***************************************************************************)
C7_GrownSize ==
    (last.op = "realloc" /\ last.ptr # NULL /\ last.ret # NULL /\ last.ret # last.ptr) =>
        /\ Leq(last.sz, LastHdr.payloadsz)
        /\ Leq(Minus(realloc_adjustedsz(last.sz), Sz(HEADER_SIZE)), LastHdr.payloadsz)

(***************************************************************************)
(* C8.  From every reachable state and for every size n,                   *)
(* myrealloc(NULL, n) returns what mymalloc(n) returns and leaves the      *)
(* same allocator state (memory, free lists, hit counters, segment size).  *)
(***************************************************************************)
C8_NullIsMalloc ==
    \A n \in MallocSizes, ok \in BOOLEAN :
        LET a == myrealloc(State, NULL, n, ok)
            b == mymalloc(State, n, ok)
        IN  a.ret = b.ret /\ a.st = b.st

(***************************************************************************)
(* C9.  An invalid size (0, or more than INT_MAX) makes mymalloc(size) and *)
(* myrealloc(p, size) of a held block return NULL and change nothing: the  *)
(* memory, the free lists, the hit counters, the segment size and the      *)
(* blocks held stay as they were.                                          *)
(***************************************************************************)
C9_InvalidSize ==
    [][(/\ nops' = nops + 1
        /\ \/ last'.op = "malloc"
           \/ last'.op = "realloc" /\ last'.ptr # NULL
        /\ (last'.sz = ZERO \/ Lt(INT_MAX, last'.sz)))
       => /\ last'.ret = NULL
          /\ mem' = mem
          /\ free_lists' = free_lists
          /\ hit_counter' = hit_counter
          /\ pages' = pages
          /\ live' = live]_vars

(***************************************************************************)
(* C10.  When extend_heap_segment fails, mymalloc and a growing myrealloc  *)
(* return NULL with the memory (every header and all contents), the free   *)
(* lists and the segment size as before; of the hit counters only the one  *)
(* the call had incremented differs, by one.  For myrealloc the old block  *)
(* is still held, still allocated and on no free list.                     *)
(***************************************************************************)
C10_ExtendFails ==
    [][(nops' = nops + 1 /\ last'.path = "oom")
       => /\ last'.ret = NULL
          /\ mem' = mem
          /\ free_lists' = free_lists
          /\ pages' = pages
          /\ live' = live
          /\ LET k == IF last'.op = "realloc" THEN REALLOC_INDEX
                      ELSE free_list_indx(roundup(Plus(last'.sz, Sz(HEADER_SIZE)), ALIGNMENT))
             IN  hit_counter' = [hit_counter EXCEPT ![k] = U32(Plus(@, ONE))]
          /\ last'.op = "realloc" =>
                /\ last'.ptr \in {b.ptr : b \in live'}
                /\ HdrAt(mem', hdr_for_payload(last'.ptr)).alloc = 1
                /\ \A i \in Classes :
                      hdr_for_payload(last'.ptr) \notin ListBlocks(mem', free_lists', i)]_vars

\* A growing myrealloc of a held block has just failed for want of pages.
C10_Witness ==
    /\ last.op = "realloc" /\ last.path = "oom" /\ last.ret = NULL
    /\ last.ptr \in LivePtrs
    /\ Lt(get_size(mem, hdr_for_payload(last.ptr)), last.sz)

(***************************************************************************)
(* What the claims about the size classes speak of.                        *)
(***************************************************************************)
ValidSz(n) == n # ZERO /\ Leq(n, INT_MAX)

\* The adjusted footprint of a request, the payload it needs and its class.
FootprintOf(n) == roundup(Plus(n, Sz(HEADER_SIZE)), ALIGNMENT)

NeedOf(n) == Minus(FootprintOf(n), Sz(HEADER_SIZE))

ClassOfRequest(n) == free_list_indx(FootprintOf(n))

\* The class of a request of n bytes is hot once the request is counted.
HotWhenCounted(n) ==
    Leq(Sz(HIT_SENSOR), U32(Plus(hit_counter[ClassOfRequest(n)], ONE)))

\* List i holds a free block with room for need bytes.
HasFit(m, fl, i, need) ==
    \E h \in ListBlocks(m, fl, i) : Leq(need, get_size(m, h))

AllSizes == MallocSizes \cup HotMallocSizes

(***************************************************************************)
(* C11.  Hot-class short circuit: from every reachable state, a valid      *)
(* mymalloc request whose class k is hot once the request is counted       *)
(* searches no list of index above k: it returns a block of a list of      *)
(* index <= k, or asks for pages.                                          *)
(***************************************************************************)
C11_HotShortCircuit ==
    \A n \in AllSizes, ok \in BOOLEAN :
        (ValidSz(n) /\ HotWhenCounted(n)) =>
            LET r == mymalloc(State, n, ok)
                k == ClassOfRequest(n)
            IN  /\ r.probed \subseteq 0 .. k
                /\ \/ /\ r.path = "fit"
                      /\ get_free_lists_index(r.st.mem, hdr_for_payload(r.ret)) \in r.probed
                      /\ r.st.pages = pages
                   \/ /\ r.path = "extend"
                      /\ r.ret = payload_for_hdr(SegmentEnd(State))
                   \/ /\ r.path = "oom"
                      /\ ~ok

\* A request of a hot class below the reallocation class has just been
\* served with new pages while a list of a higher index holds a fit.
C11_Witness ==
    /\ last.op = "malloc" /\ last.path = "extend"
    /\ ClassOfRequest(last.sz) < REALLOC_INDEX
    /\ Leq(Sz(HIT_SENSOR), hit_counter[ClassOfRequest(last.sz)])
    /\ \E j \in (ClassOfRequest(last.sz) + 1) .. (REALLOC_INDEX - 1) :
          HasFit(mem, free_lists, j, NeedOf(last.sz))

(***************************************************************************)
(* C12.  The reallocation lane: mymalloc takes no block off                *)
(* free_lists[REALLOC_INDEX] and returns no block of index REALLOC_INDEX;  *)
(* a growing myrealloc takes its new block from that list or from new      *)
(* pages, never from the lists 0..26; so every held block of index         *)
(* REALLOC_INDEX came from myrealloc.                                      *)
(***************************************************************************)
C12_LaneIsolation ==
    [][(nops' = nops + 1) =>
          /\ last'.op = "malloc" =>
                /\ \A h \in ListBlocks(mem, free_lists, REALLOC_INDEX) :
                      /\ h \in ListBlocks(mem', free_lists', REALLOC_INDEX)
                      /\ HdrAt(mem', h) = HdrAt(mem, h)
                /\ last'.ret # NULL =>
                      HdrAt(mem', hdr_for_payload(last'.ret)).index # REALLOC_INDEX
          /\ (last'.op = "realloc" /\ last'.ptr # NULL
                /\ last'.ret # NULL /\ last'.ret # last'.ptr) =>
                \A i \in 0 .. (REALLOC_INDEX - 1) :
                    hdr_for_payload(last'.ret) \notin ListBlocks(mem, free_lists, i)
          /\ \A b \in live' :
                HdrAt(mem', hdr_for_payload(b.ptr)).index = REALLOC_INDEX
                    => b.by = "realloc"]_vars

(***************************************************************************)
(* C13.  Once class k (0 <= k <= 26) is hot, a mymalloc request of class k *)
(* is searched in free_lists[k] and nowhere else: if that list holds a     *)
(* block with room for the request, the block returned comes from that     *)
(* list and the segment is not extended; more pages are asked for only     *)
(* when list k has no fit.                                                 *)
(***************************************************************************)
C13_HotOwnList ==
    [][(/\ nops' = nops + 1
        /\ last'.op = "malloc"
        /\ ValidSz(last'.sz)
        /\ ClassOfRequest(last'.sz) < REALLOC_INDEX
        /\ HotWhenCounted(last'.sz))
       => LET k == ClassOfRequest(last'.sz)
          IN  IF HasFit(mem, free_lists, k, NeedOf(last'.sz))
              THEN /\ last'.path = "fit"
                   /\ hdr_for_payload(last'.ret) \in ListBlocks(mem, free_lists, k)
                   /\ pages' = pages
              ELSE last'.path \in {"extend", "oom"}]_vars

(***************************************************************************)
(* C14.  In every reachable state every block, held or free, whose index   *)
(* is not REALLOC_INDEX has the index of the class of its footprint:       *)
(* 2^(index+4) <= payloadsz + 8 < 2^(index+5).                             *)
(***************************************************************************)
\* 2^e as a size, for e up to 33.
Pow2Sz(e) == IF e < 30 THEN Sz(2^e) ELSE [hi |-> 2^(e - 30), lo |-> 0]

\* footprint lies in the range of class k.
InClass(footprint, k) ==
    Leq(Pow2Sz(k + EXP), footprint) /\ Lt(footprint, Pow2Sz(k + EXP + 1))

\* The headers of all blocks, held or on a free list.
Blocks == AllocBlocks \cup FreeBlocks

Footprint(m, h) == Plus(get_size(m, h), Sz(HEADER_SIZE))

C14_IndexIsClass ==
    \A h \in Blocks :
        HdrAt(mem, h).index # REALLOC_INDEX =>
            /\ HdrAt(mem, h).index \in Classes
            /\ InClass(Footprint(mem, h), HdrAt(mem, h).index)

(***************************************************************************)
(* C15.  In every reachable state no hit counter has gone below zero:      *)
(* none holds a value of 2^31 or more left by a decrement of 0, and a      *)
(* class below REALLOC_INDEX is hot only if at least HIT_SENSOR requests   *)
(* have been made.                                                         *)
(***************************************************************************)
C15_CountersNonNegative ==
    \A k \in Classes :
        /\ Lt(hit_counter[k], Pow2Sz(31))
        /\ (k < REALLOC_INDEX /\ nops < HIT_SENSOR) =>
               Lt(hit_counter[k], Sz(HIT_SENSOR))

(***************************************************************************)
(* C16.  In every reachable state hit_counter[REALLOC_INDEX] is at least   *)
(* HIT_SENSOR, so every split made on the reallocation list, or after      *)
(* myrealloc extended the segment, leaves its remainder on that list.      *)
(***************************************************************************)
C16_ReallocAlwaysHot == Leq(Sz(HIT_SENSOR), hit_counter[REALLOC_INDEX])

(***************************************************************************)
(* C17.  find_fit(need, c, TRUE), from every reachable state: it returns   *)
(* NULL iff no block of list c has payloadsz >= need; otherwise it takes   *)
(* the first such block b in list order, unlinks b and only b from list c  *)
(* (the others keep their order) and marks it allocated; when              *)
(* payloadsz(b) - need >= MIN_BLK_SZ it sets payloadsz(b) = need and makes *)
(* a free block at b + 8 + need of payloadsz (old payloadsz - need) - 8,   *)
(* and otherwise leaves payloadsz(b) as it was and makes no block.         *)
(***************************************************************************)
\* The headers of list c in list order.
RECURSIVE SeqFrom(_, _, _)
SeqFrom(m, h, acc) ==
    IF h = NULL \/ (\E i \in 1 .. Len(acc) : acc[i] = h) THEN acc
    ELSE SeqFrom(m, LoadPtr(m, payload_for_hdr(h)), Append(acc, h))

ListSeq(m, fl, c) == SeqFrom(m, fl[c], <<>>)

RECURSIVE Without(_, _)
Without(seq, x) ==
    IF seq = <<>> THEN <<>>
    ELSE IF Head(seq) = x THEN Without(Tail(seq), x)
    ELSE <<Head(seq)>> \o Without(Tail(seq), x)

\* The addresses that hold a header.
HdrCells(m) == {a \in DOMAIN m : m[a].k = "hdr"}

\* The payload sizes find_fit is asked for by mymalloc and myrealloc.
Needs ==
    {NeedOf(n) : n \in HotMallocSizes}
        \cup {Minus(realloc_adjustedsz(n), Sz(HEADER_SIZE)) : n \in HotReallocSizes}

C17_FindFit ==
    \A c \in Classes, need \in Needs :
        LET L == ListSeq(mem, free_lists, c)
            fits == {i \in 1 .. Len(L) : Leq(need, get_size(mem, L[i]))}
            r == find_fit(State, need, c, TRUE)
        IN  IF fits = {}
            THEN r.bp = NULL /\ r.st = State
            ELSE LET b == L[CHOOSE i \in fits : \A j \in fits : i <= j]
                     old == get_size(mem, b)
                     rem == next_block_ptr(b, need)
                     L2 == ListSeq(r.st.mem, r.st.free_lists, c)
                 IN  /\ r.bp = b
                     /\ HdrAt(r.st.mem, b).alloc = 1
                     /\ IF Leq(Sz(MIN_BLK_SZ), Minus(old, need))
                        THEN /\ get_size(r.st.mem, b) = need
                             /\ HdrAt(r.st.mem, rem).alloc = 0
                             /\ get_size(r.st.mem, rem) =
                                    Minus(Minus(old, need), Sz(HEADER_SIZE))
                             /\ Without(L2, rem) = Without(L, b)
                             /\ HdrCells(r.st.mem) = HdrCells(mem) \cup {rem}
                        ELSE /\ get_size(r.st.mem, b) = old
                             /\ L2 = Without(L, b)
                             /\ HdrCells(r.st.mem) = HdrCells(mem)

\* mymalloc has just been served by find_fit with a block that was split,
\* from a list that holds blocks too small for the request.
C17_Witness ==
    /\ last.op = "malloc" /\ last.path = "fit"
    /\ LET c == LastHdr.index
           rem == next_block_ptr(hdr_for_payload(last.ret), NeedOf(last.sz))
       IN  /\ LastHdr.payloadsz = NeedOf(last.sz)
           /\ rem \in FreeBlocks
           /\ \E h \in ListBlocks(mem, free_lists, c) :
                 h # rem /\ Lt(get_size(mem, h), NeedOf(last.sz))

(***************************************************************************)
(* C18.  Whenever a call splits a block, the free remainder is at the head *)
(* of exactly one list and carries that list's index: for a split in       *)
(* find_fit on list c it is list c if hit_counter[c] >= HIT_SENSOR and     *)
(* the list of the class of the remainder's footprint otherwise; after     *)
(* mymalloc extended the segment it is the list of the request's class if  *)
(* that class is hot and the list of the remainder's class otherwise;      *)
(* after myrealloc extended the segment it is list REALLOC_INDEX.          *)
(***************************************************************************)
FreeBlocksOf(m, fl) == UNION {ListBlocks(m, fl, i) : i \in Classes}

\* The free blocks a step has made: on a list after it, no block before it.
NewFree == {h \in FreeBlocksOf(mem', free_lists') : h \notin Blocks}

\* The list the remainder of the step's split belongs on, if it is list j.
RemainderOn(h, j) ==
    LET returned == HdrAt(mem', hdr_for_payload(last'.ret)).index
        ofsize == InClass(Footprint(mem', h), j)
    IN  IF last'.op = "malloc" /\ last'.path = "fit"
        THEN IF Leq(Sz(HIT_SENSOR), hit_counter'[returned])
             THEN j = returned ELSE ofsize
        ELSE IF last'.op = "malloc"
        THEN IF Leq(Sz(HIT_SENSOR), hit_counter'[ClassOfRequest(last'.sz)])
             THEN j = ClassOfRequest(last'.sz) ELSE ofsize
        ELSE IF last'.path = "fit"
        THEN IF Leq(Sz(HIT_SENSOR), U32(Plus(hit_counter[REALLOC_INDEX], ONE)))
             THEN j = REALLOC_INDEX ELSE ofsize
        ELSE j = REALLOC_INDEX

C18_RemainderPlacement ==
    [][(nops' = nops + 1 /\ last'.path \in {"fit", "extend"}) =>
          /\ Cardinality(NewFree) <= 1
          /\ \A h \in NewFree :
                LET j == HdrAt(mem', h).index
                IN  /\ j \in Classes
                    /\ HdrAt(mem', h).alloc = 0
                    /\ \A i \in Classes :
                          h \in ListBlocks(mem', free_lists', i) <=> i = j
                    /\ \/ free_lists'[j] = h
                       \/ /\ last'.op = "realloc"
                          /\ free_lists'[j] = hdr_for_payload(last'.ptr)
                          /\ LoadPtr(mem', last'.ptr) = h
                    /\ RemainderOn(h, j)]_vars

\* find_fit has just split a block of a hot list below REALLOC_INDEX: the
\* remainder heads that list although its footprint is of another class.
C18_Witness ==
    /\ last.op = "malloc" /\ last.path = "fit"
    /\ LastHdr.index < REALLOC_INDEX
    /\ Leq(Sz(HIT_SENSOR), hit_counter[LastHdr.index])
    /\ LET rem == next_block_ptr(hdr_for_payload(last.ret), NeedOf(last.sz))
       IN  /\ LastHdr.payloadsz = NeedOf(last.sz)
           /\ free_lists[LastHdr.index] = rem
           /\ HdrAt(mem, rem).index = LastHdr.index
           /\ ~InClass(Footprint(mem, rem), LastHdr.index)

C20_BlockShape ==
    \A h \in Blocks :
        /\ Leq(Sz(MIN_BLK_SZ - HEADER_SIZE), get_size(mem, h))
        /\ ModPow2(Footprint(mem, h), ALIGNMENT) = 0
        /\ Aligned(payload_for_hdr(h))

\* find_fit has just granted a whole page-sized region without a split,
\* while a block cut off by an earlier split is held and the remainder of
\* that split is on a free list.
C20_Witness ==
    /\ last.op = "malloc" /\ last.path = "fit"
    /\ last.sz = Sz(4088)
    /\ get_size(mem, hdr_for_payload(last.ret)) = Sz(4088)
    /\ \E h \in AllocBlocks : get_size(mem, h) = Sz(104)
    /\ FreeBlocks # {}

(***************************************************************************)
(* What the claims about the whole heap speak of.                          *)
(***************************************************************************)
\* The walk of list c ends in the null sentinel: the list is empty, or the
\* last block met before a block repeats has a null next pointer.
EndsInNull(m, fl, c) ==
    LET L == ListSeq(m, fl, c)
    IN  IF L = <<>> THEN fl[c] = NULL
        ELSE LoadPtr(m, payload_for_hdr(L[Len(L)])) = NULL

\* The block at header h lies inside the segment of st.
InSegment(st, h) ==
    /\ Leq(HEAP_START, h)
    /\ Leq(BlockEnd(st.mem, h), SegmentEnd(st))

\* No call the caller can make next walks a list for ever.
NoWalkHangs ==
    /\ \A n \in AllSizes : mymalloc(State, n, TRUE).path # "hang"
    /\ \A p \in LivePtrs, n \in ReallocSizes \cup HotReallocSizes :
           myrealloc(State, p, n, TRUE).path # "hang"

(***************************************************************************)
(* C21.  The structural conditions prescribed for validate() hold in every *)
(* reachable state: each of the 28 free lists is acyclic and ends in the   *)
(* null sentinel, every block on list k has alloc = 0 and index k, no      *)
(* block is on a list twice or on two lists, and every block, held or      *)
(* free, lies inside the segment; so no find_fit walk goes on for ever.    *)
(***************************************************************************)
C21_Validate ==
    /\ \A k \in Classes :
           /\ EndsInNull(mem, free_lists, k)
           /\ \A h \in ListBlocks(mem, free_lists, k) :
                  /\ HdrAt(mem, h).alloc = 0
                  /\ HdrAt(mem, h).index = k
           /\ \A j \in Classes \ {k} :
                  ListBlocks(mem, free_lists, k) \cap ListBlocks(mem, free_lists, j) = {}
    /\ \A h \in Blocks : InSegment(State, h)
    /\ NoWalkHangs

\* Two lists hold blocks, one of them two blocks, after a block taken from
\* a list by find_fit has been given back.
C21_Witness ==
    /\ nops >= 2 /\ last.op = "free"
    /\ HdrAt(mem, hdr_for_payload(last.ptr)).alloc = 0
    /\ \E k \in Classes : Cardinality(ListBlocks(mem, free_lists, k)) >= 2
    /\ Cardinality({k \in Classes : free_lists[k] # NULL}) >= 2

\* The walk over the segment from header h on, each step going on by the
\* footprint of the block met: the headers met and the address the walk
\* stops at (the end of the segment, or an address that holds no header, or
\* one past the end).
RECURSIVE TileFrom(_, _, _, _)
TileFrom(m, h, end, acc) ==
    IF h = end \/ Lt(end, h) \/ HdrAt(m, h).alloc = UNINIT
       \/ Len(acc) > Cardinality(DOMAIN m)
    THEN [hdrs |-> acc, at |-> h]
    ELSE TileFrom(m, next_block_ptr(h, get_size(m, h)), end, Append(acc, h))

Tiling == TileFrom(mem, HEAP_START, SegmentEnd(State), <<>>)

\* The sum of the footprints of the blocks of a sequence of headers.
RECURSIVE SumFootprints(_, _)
SumFootprints(m, seq) ==
    IF seq = <<>> THEN ZERO
    ELSE Plus(Footprint(m, Head(seq)), SumFootprints(m, Tail(seq)))

\* The lists block h can be reached from.
ListsOf(h) == {k \in Classes : h \in ListBlocks(mem, free_lists, k)}

(***************************************************************************)
(* C22.  No memory is lost: in every reachable state the blocks tile the   *)
(* segment (the walk from the segment base by footprints ends at the       *)
(* segment end and the footprints sum to pages * PAGE_SIZE), every block   *)
(* the caller holds is one of them, every block the caller does not hold   *)
(* is reachable from exactly one free list, the one of the index in its    *)
(* header, and right after myfree(p) the block of p heads that list with   *)
(* alloc = 0.                                                              *)
(***************************************************************************)
C22_NoMemoryLost ==
    LET T == Tiling
        walked == {T.hdrs[i] : i \in 1 .. Len(T.hdrs)}
    IN  /\ T.at = SegmentEnd(State)
        /\ SumFootprints(mem, T.hdrs) = MulPow2(pages, PAGE_SIZE)
        /\ AllocBlocks \subseteq walked
        /\ \A h \in walked \ AllocBlocks :
               ListsOf(h) = {HdrAt(mem, h).index}
        /\ last.op = "free" =>
               LET h == hdr_for_payload(last.ptr)
               IN  /\ HdrAt(mem, h).alloc = 0
                   /\ free_lists[HdrAt(mem, h).index] = h

====
